---- MODULE Spec2Model ----
(***************************************************************************)
(* Model of the `say` command of common-pepper                             *)
(* (src/commands/main/say/index.js): the command parser (exec,             *)
(* modifyTask), the field validator (checkRegexNotMatch), the interval     *)
(* parser (parseSeconds), the store validator (validateJSON) and the task  *)
(* store (updateTaskList) over the JSON file at DB_PATH.                   *)
(*                                                                         *)
(* JavaScript strings are sequences of one-character strings, a request is *)
(* a sequence of such tokens (an Array of strings).                        *)
(*                                                                         *)
(* Spec: the commands from the empty task list. SpecEnv: the same with the *)
(* file changed from outside. SpecParse: parseSeconds on its own.          *)
(* SpecRound: a create, modifies and a delete of one name. SpecRace: two   *)
(* processes in updateTaskList on one file.                                *)
(***************************************************************************)
EXTENDS Integers, Sequences, FiniteSets, TLC

\* ------------------------------------------------------------------ bounds

\* Longest message, in tokens, of the create commands that are issued.
MaxMsgLen == 1

\* Largest number of tokens that follow the keyword of a modify command.
MaxModifyArgs == 2

\* The largest time value a Date holds (8.64e15 ms in ECMAScript) and the clock
\* reading (about 1.76e12 ms), both on a scale of 1 : 1e9 so that the
\* arithmetic stays within 32-bit integers.
MaxDate == 8640000

Epox == 1762

\* ------------------------------------------------------------- characters

Digits == <<"0", "1", "2", "3", "4", "5", "6", "7", "8", "9">>

LowerCase == <<"a", "b", "c", "d", "e", "f", "g", "h", "i", "j", "k", "l", "m",
               "n", "o", "p", "q", "r", "s", "t", "u", "v", "w", "x", "y", "z">>

UpperCase == <<"A", "B", "C", "D", "E", "F", "G", "H", "I", "J", "K", "L", "M",
               "N", "O", "P", "Q", "R", "S", "T", "U", "V", "W", "X", "Y", "Z">>

Range(s) == {s[i] : i \in DOMAIN s}

DigitChars == Range(Digits)

UpperChars == Range(UpperCase)

\* [a-zA-Z0-9_]
WordChars == Range(LowerCase) \cup UpperChars \cup DigitChars \cup {"_"}

\* [a-zA-Z0-9_-]
NameChars == WordChars \cup {"-"}

IsDigit(c) == c \in DigitChars

IsWordChar(c) == c \in WordChars

IsNameChar(c) == c \in NameChars

DigitValue(c) == (CHOOSE i \in DOMAIN Digits : Digits[i] = c) - 1

\* One character of String.prototype.toLowerCase.
LowerChar(c) ==
    IF c \in UpperChars
    THEN LowerCase[CHOOSE i \in DOMAIN UpperCase : UpperCase[i] = c]
    ELSE c

\* A conversion that leaves the letter case as given.
toLowerCase_AsGiven(s) == s

toLowerCase(s) == [i \in DOMAIN s |-> LowerChar(s[i])]

\* Array.prototype.join: the tokens with sep between them.
RECURSIVE join(_, _)
join(tokens, sep) ==
    IF tokens = <<>> THEN <<>>
    ELSE IF Len(tokens) = 1 THEN tokens[1]
    ELSE tokens[1] \o sep \o join(Tail(tokens), sep)

\* String.prototype.split(":"): the pieces between the colons.
RECURSIVE SplitFrom(_, _, _)
SplitFrom(s, i, cur) ==
    IF i > Len(s) THEN <<cur>>
    ELSE IF s[i] = ":" THEN <<cur>> \o SplitFrom(s, i + 1, <<>>)
    ELSE SplitFrom(s, i + 1, Append(cur, s[i]))

split(s) == SplitFrom(s, 1, <<>>)

\* \d+
AllDigits(s) == Len(s) >= 1 /\ \A i \in DOMAIN s : IsDigit(s[i])

\* ----------------------------------------------------------------- values

\* A value exec hands back: a string (a template of the source with the
\* interpolated values a and b), the boolean false, or an exception that
\* leaves exec.
StringReply(text, a, b) == [type |-> "string", text |-> text, a |-> a, b |-> b]

JSFalse == [type |-> "boolean", text |-> "false", a |-> <<>>, b |-> <<>>]

Thrown(what) == [type |-> "throw", text |-> what, a |-> <<>>, b |-> <<>>]

\* No reply yet (before the first command).
NoReply == [type |-> "none", text |-> "", a |-> <<>>, b |-> <<>>]

usage == StringReply("say <message> every <h>:<m>:<s> on <channel> named <task-name>", <<>>, <<>>)

modify == StringReply("say modify say|on|every|named <message>|<h>:<m>:<s>|<channel>|<task-name>", <<>>, <<>>)

WipedClean == StringReply("The task list has been wiped clean.", <<>>, <<>>)

InvalidInterval == StringReply("Please enter a valid interval.", <<>>, <<>>)

InvalidTaskList == StringReply("Invalid Task List.", <<>>, <<>>)

Activated(taskName, channel) == StringReply("Task ${taskName} activated on channel ${updatedTask.channel}.", taskName, channel)

AlreadyExists(taskName) == StringReply("Task with name '${taskName}' already exists.", taskName, <<>>)

Modified(taskName) == StringReply("Task ${taskName} successfully modified.", taskName, <<>>)

Removed(taskName) == StringReply("Task ${taskName} successfully removed.", taskName, <<>>)

DoesNotExist(taskName) == StringReply("The task '${taskName}' does not exists.", taskName, <<>>)

\* A number or a string stored in a field of a record of the document.
Num(n) == [t |-> "number", n |-> n, s |-> <<>>]

Str(s) == [t |-> "string", n |-> 0, s |-> s]

\* -------------------------------------------------------- field validator

\* /^\d+$|^(\d+:){1,2}(\d+)$/
MatchEvery(s) ==
    LET parts == split(s)
    IN  Len(parts) \in 1..3 /\ \A i \in DOMAIN parts : AllDigits(parts[i])

\* /^[a-zA-Z0-9_]{4,25}$/
MatchOn(s) == Len(s) \in 4..25 /\ \A i \in DOMAIN s : IsWordChar(s[i])

\* /^[a-zA-Z0-9_-]{3,40}$/
MatchNamed(s) == Len(s) \in 3..40 /\ \A i \in DOMAIN s : IsNameChar(s[i])

NoViolation == JSFalse

FieldViolation(type, value) ==
    CASE type = "every" /\ ~MatchEvery(value) ->
            StringReply("Interval should be in h:m:s or m:s or s format.", <<>>, <<>>)
      [] type = "on" /\ ~MatchOn(value) ->
            StringReply("Username should only contain alphanumeric and underscores, ranging from 4-25 characters only.", <<>>, <<>>)
      [] type = "named" /\ ~MatchNamed(value) ->
            StringReply("Task names should only contain alphanumerics, hyphens and underscores, ranging from 3-50 characters only.", <<>>, <<>>)
      [] OTHER -> NoViolation

\* toMatch is the object's properties in insertion order, each <<type, value>>;
\* the first violation is returned.
RECURSIVE checkRegexNotMatch(_)
checkRegexNotMatch(toMatch) ==
    IF toMatch = <<>> THEN NoViolation
    ELSE LET v == FieldViolation(toMatch[1][1], toMatch[1][2])
         IN  IF v # NoViolation THEN v ELSE checkRegexNotMatch(Tail(toMatch))

\* --------------------------------------------------------- interval parser

\* Number of leading decimal digits of s from position i.
RECURSIVE DigitRun(_, _)
DigitRun(s, i) ==
    IF i <= Len(s) /\ IsDigit(s[i]) THEN 1 + DigitRun(s, i + 1) ELSE 0

RECURSIVE DecimalValue(_)
DecimalValue(s) ==
    IF s = <<>> THEN 0
    ELSE 10 * DecimalValue(SubSeq(s, 1, Len(s) - 1)) + DigitValue(s[Len(s)])

\* parseInt of a token without white space: an optional sign, then the longest
\* run of digits; NaN when there is no digit.
parseInt(s) ==
    LET signed == Len(s) >= 1 /\ s[1] \in {"-", "+"}
        from   == IF signed THEN 2 ELSE 1
        n      == DigitRun(s, from)
        v      == DecimalValue(SubSeq(s, from, from + n - 1))
    IN  IF n = 0 THEN [nan |-> TRUE, v |-> 0]
        ELSE [nan |-> FALSE, v |-> IF signed /\ s[1] = "-" THEN 0 - v ELSE v]

\* A part that is undefined (not destructured).
Undefined == [nan |-> TRUE, v |-> 0]

\* Truthiness of a number: neither NaN (nor undefined) nor 0.
Truthy(x) == ~x.nan /\ x.v # 0

\* (new Date(x)).toString() === "Invalid Date"
InvalidDate(x) == x > MaxDate \/ x < 0 - MaxDate

\* A parser that reads the parts left to right: seconds first.
parseSeconds_LeftToRight(interval) ==
    LET parts == split(interval)
        part(i) == IF i \in DOMAIN parts /\ ~parseInt(parts[i]).nan
                   THEN parseInt(parts[i]).v ELSE 0
        total == part(1) + part(2) * 60 + part(3) * 60 * 60
    IN  IF InvalidDate(Epox + total) \/ InvalidDate(total) THEN 0 ELSE total

parseSeconds(interval) ==
    LET parts     == split(interval)
        timeParts == [i \in DOMAIN parts |-> parseInt(parts[i])]
        n         == Len(timeParts)
        seconds   == CASE n = 1 -> timeParts[1]
                       [] n = 2 -> timeParts[2]
                       [] n = 3 -> timeParts[3]
                       [] OTHER -> Undefined
        minutes   == CASE n = 2 -> timeParts[1]
                       [] n = 3 -> timeParts[2]
                       [] OTHER -> Undefined
        hours     == CASE n = 3 -> timeParts[1]
                       [] OTHER -> Undefined
        total     == (IF Truthy(seconds) THEN seconds.v ELSE 0)
                     + (IF Truthy(minutes) THEN minutes.v * 60 ELSE 0)
                     + (IF Truthy(hours) THEN hours.v * 60 * 60 ELSE 0)
    IN  IF \/ (Truthy(seconds) /\ InvalidDate(Epox + seconds.v))
           \/ (Truthy(minutes) /\ InvalidDate(Epox + minutes.v * 60))
           \/ (Truthy(hours) /\ InvalidDate(Epox + hours.v * 60 * 60))
        THEN 0
        ELSE IF InvalidDate(total) THEN 0 ELSE total

\* ------------------------------------------------------------ the document

\* What the file at DB_PATH holds: text JSON.parse rejects, a JSON value that
\* is not iterable (an object, a number, null), or an array of mappings. A
\* mapping is a function from its own keys to values; an object value is its
\* properties in order, each [k |-> name, v |-> Num(..) or Str(..)].
Garbage == [kind |-> "garbage", elems |-> <<>>]

NotIterable == [kind |-> "object", elems |-> <<>>]

ArrayDoc(elems) == [kind |-> "array", elems |-> elems]

EmptyMapping == [key \in {} |-> key]

\* JSON.stringify([{}], null, 2), as DBInit and `clear task list` write it.
EmptyDoc == ArrayDoc(<<EmptyMapping>>)

ObjectValue(fields) == [t |-> "object", fields |-> fields]

\* The values every mapping inherits from Object.prototype.
FunctionValue == [t |-> "function", fields |-> <<>>]

PrototypeValue == [t |-> "prototype", fields |-> <<>>]

UndefinedValue == [t |-> "undefined", fields |-> <<>>]

constructor == <<"c", "o", "n", "s", "t", "r", "u", "c", "t", "o", "r">>

valueOf == <<"v", "a", "l", "u", "e", "O", "f">>

proto == <<"_", "_", "p", "r", "o", "t", "o", "_", "_">>

\* Methods of Object.prototype (these among others).
InheritedMethods == {constructor, valueOf}

\* tasks[key]: an own property, else what the prototype chain gives.
Get(tasks, key) ==
    IF key \in DOMAIN tasks THEN tasks[key]
    ELSE IF key \in InheritedMethods THEN FunctionValue
    ELSE IF key = proto THEN PrototypeValue
    ELSE UndefinedValue

\* Truthiness of a property value: everything but undefined.
TruthyValue(v) == v.t # "undefined"

\* tasks[key] = value: an own property is created or overwritten, except
\* that `__proto__`, when it is not an own property, is the accessor of
\* Object.prototype, which sets the prototype and creates no property.
Put(tasks, key, value) ==
    IF key = proto /\ key \notin DOMAIN tasks THEN tasks
    ELSE [x \in DOMAIN tasks \cup {key} |-> IF x = key THEN value ELSE tasks[x]]

\* delete tasks[key]: only an own property is removed.
Delete(tasks, key) == [x \in DOMAIN tasks \ {key} |-> tasks[x]]

\* Own enumerable properties of a value, as the spread {...v} copies them: a
\* function and Object.prototype have none.
OwnFields(v) == IF v.t = "object" THEN v.fields ELSE <<>>

FieldNames(fields) == {fields[i].k : i \in DOMAIN fields}

\* {...old, ...patch}: a property of patch replaces the one of old in place,
\* a new one is appended.
RECURSIVE Spread(_, _)
Spread(old, patch) ==
    IF patch = <<>> THEN old
    ELSE LET p    == patch[1]
             next == IF p.k \in FieldNames(old)
                     THEN [i \in DOMAIN old |-> IF old[i].k = p.k THEN p ELSE old[i]]
                     ELSE Append(old, p)
         IN  Spread(next, Tail(patch))

\* JSON.parse(JSON.stringify([tasks])): what a later read gets back from the
\* text that is written. A property whose value is a function or undefined is
\* left out of the text; Object.prototype, which has no enumerable property,
\* is written as {}.
Stringify(tasks) ==
    ArrayDoc(<<[key \in {x \in DOMAIN tasks : tasks[x].t \in {"object", "prototype"}} |->
                 ObjectValue(OwnFields(tasks[key]))]>>)

\* ---------------------------------------------------------- store validator

\* {"totalWaitInterval":\d+,"channel":"[a-zA-Z0-9_]{4,25}","taskMessage":"..."}
\* on the text of one value.
MatchTask(v) ==
    /\ v.t = "object"
    /\ Len(v.fields) = 3
    /\ v.fields[1].k = "totalWaitInterval"
    /\ v.fields[1].v.t = "number"
    /\ v.fields[1].v.n >= 0
    /\ v.fields[2].k = "channel"
    /\ v.fields[2].v.t = "string"
    /\ MatchOn(v.fields[2].v.s)
    /\ v.fields[3].k = "taskMessage"
    /\ v.fields[3].v.t = "string"

\* JSON.stringify(db).match(taskList): one array holding one mapping, every
\* key "[a-zA-Z0-9_-]{3,40}" and every value a task.
MatchTaskList(db) ==
    /\ db.kind = "array"
    /\ Len(db.elems) = 1
    /\ \A key \in DOMAIN db.elems[1] :
          MatchNamed(key) /\ MatchTask(db.elems[1][key])

\* A task name as the callers hold it: exec has a string (meta[5]),
\* modifyTask an Array (the result of splice).
StringName(s) == [js |-> "string", val |-> s]

ArrayName(tokens) == [js |-> "array", val |-> tokens]

\* The property key (and the interpolated text) of a name: an Array is
\* converted by joining its elements with ",".
ToKey(name) == IF name.js = "array" THEN join(name.val, <<",">>) ELSE name.val

\* Truthiness: every Array is truthy, a string unless it is empty.
TruthyName(name) == name.js = "array" \/ name.val # <<>>

\* a !== b: values of different types are never equal, nor are two distinct
\* Array objects.
StrictNotEqual(a, b) == a.js # b.js \/ a.js = "array" \/ a.val # b.val

\* "true", "false", or "throw" when the diagnostic path raises a TypeError
\* (db is not iterable, or db[0] is undefined).
validateJSON(db, taskName) ==
    IF MatchTaskList(db) THEN "true"
    ELSE IF TruthyName(taskName)
         THEN IF db.kind # "array" THEN "throw"
              ELSE IF Len(db.elems) = 0 THEN "throw"
              ELSE "false"
         ELSE "false"

\* ------------------------------------------------------------ the task store

\* The file: present and accessible, absent, or present without permissions.
File(st, doc) == [st |-> st, doc |-> doc]

Outcome(reply, f) == [reply |-> reply, file |-> f]

\* fs.writeFileSync(DB_PATH, text): creates the file when it is absent; raises
\* EACCES when the file may not be written.
CanWrite(f) == f.st # "noaccess"

\* fs.readFileSync and JSON.parse succeed.
CanParse(f) == f.st = "ok" /\ f.doc.kind # "garbage"

\* A create without the test for an existing task: the entry is overwritten.
CreateTask_Overwrite(f, tasks, taskName, updatedTask) ==
    Outcome(Activated(ToKey(taskName), updatedTask[2].v.s),
            File("ok", Stringify(Put(tasks, ToKey(taskName), ObjectValue(updatedTask)))))

\* case "create"
CreateTask(f, tasks, taskName, updatedTask) ==
    IF TruthyValue(Get(tasks, ToKey(taskName)))
    THEN Outcome(AlreadyExists(ToKey(taskName)), f)
    ELSE Outcome(Activated(ToKey(taskName), updatedTask[2].v.s),
                 File("ok", Stringify(Put(tasks, ToKey(taskName), ObjectValue(updatedTask)))))

\* The rename of case "modify": the guard compares the Array taskName with
\* the string updatedTask["named"].
RenameTask(tasks, taskName, named) ==
    IF StrictNotEqual(taskName, StringName(named))
    THEN Delete(Put(tasks, named, Get(tasks, ToKey(taskName))), ToKey(taskName))
    ELSE tasks

\* A merge that stores the patch in place of the record.
MergeTask_PatchOnly(tasks, taskName, updatedTask) ==
    Put(tasks, ToKey(taskName), ObjectValue(updatedTask))

\* The merge of case "modify".
MergeTask(tasks, taskName, updatedTask) ==
    Put(tasks, ToKey(taskName),
        ObjectValue(Spread(OwnFields(Get(tasks, ToKey(taskName))), updatedTask)))

\* case "modify"
ModifyTask(f, tasks, taskName, updatedTask) ==
    IF ~TruthyValue(Get(tasks, ToKey(taskName)))
    THEN Outcome(DoesNotExist(ToKey(taskName)), f)
    ELSE Outcome(Modified(ToKey(taskName)),
                 File("ok", Stringify(
                     IF "named" \in FieldNames(updatedTask)
                     THEN RenameTask(tasks, taskName, updatedTask[1].v.s)
                     ELSE MergeTask(tasks, taskName, updatedTask))))

\* A delete that empties the task list instead of removing one key.
DeleteTask_All(f, tasks, taskName) ==
    IF ~TruthyValue(Get(tasks, ToKey(taskName)))
    THEN Outcome(DoesNotExist(ToKey(taskName)), f)
    ELSE Outcome(Removed(ToKey(taskName)), File("ok", Stringify(EmptyMapping)))

\* case "delete"
DeleteTask(f, tasks, taskName) ==
    IF ~TruthyValue(Get(tasks, ToKey(taskName)))
    THEN Outcome(DoesNotExist(ToKey(taskName)), f)
    ELSE Outcome(Removed(ToKey(taskName)),
                 File("ok", Stringify(Delete(tasks, ToKey(taskName)))))

\* updateTaskList(taskName, type, updatedTask) on the file f: the reply and
\* the file afterwards. Every exception (ENOENT, EACCES, SyntaxError, the
\* TypeError of validateJSON) is caught and answered with the boolean false.
updateTaskList(f, taskName, type, updatedTask) ==
    IF ~CanParse(f) THEN Outcome(JSFalse, f)
    ELSE LET valid == validateJSON(f.doc, IF type = "modify" THEN taskName ELSE StringName(<<>>))
             tasks == f.doc.elems[1]
         IN  CASE valid = "throw" -> Outcome(JSFalse, f)
               [] valid = "false" -> Outcome(InvalidTaskList, f)
               [] valid = "true" /\ type = "create" -> CreateTask(f, tasks, taskName, updatedTask)
               [] valid = "true" /\ type = "modify" -> ModifyTask(f, tasks, taskName, updatedTask)
               [] valid = "true" /\ type = "delete" -> DeleteTask(f, tasks, taskName)

\* ---------------------------------------------------------- command parser

Word_clear == <<"c", "l", "e", "a", "r">>

Word_task == <<"t", "a", "s", "k">>

Word_list == <<"l", "i", "s", "t">>

Word_modify == <<"m", "o", "d", "i", "f", "y">>

Word_every == <<"e", "v", "e", "r", "y">>

Word_on == <<"o", "n">>

Word_named == <<"n", "a", "m", "e", "d">>

Word_say == <<"s", "a", "y">>

Word_remove == <<"r", "e", "m", "o", "v", "e">>

Word_delete == <<"d", "e", "l", "e", "t", "e">>

Space == <<" ">>

\* request[i], undefined (here the empty string, which equals no keyword)
\* when i is out of range.
At(request, i) == IF i \in DOMAIN request THEN request[i] ELSE <<>>

\* A test that takes `remove` or `delete` for a delete whatever follows it.
DeleteRequested_AnyLength(rest) ==
    Len(rest) >= 1 /\ rest[1] \in {Word_remove, Word_delete}

\* request.length === 1 && ["remove", "delete"].includes(request[0]), on what
\* follows the task name.
DeleteRequested(rest) ==
    Len(rest) = 1 /\ rest[1] \in {Word_remove, Word_delete}

\* request.length === 1 || !["say", "every", "on", "named"].includes(request[0])
HelpRequested(rest) ==
    \/ Len(rest) = 1
    \/ At(rest, 1) \notin {Word_say, Word_every, Word_on, Word_named}

\* modifyTask(request): request is what follows `modify`.
modifyTask(f, request) ==
    LET taskName   == ArrayName(SubSeq(request, 1, 1))
        rest       == Tail(request)
        modifyType == rest[1]
        args       == Tail(rest)
        regexNotMatch ==
            IF modifyType # Word_say /\ Len(args) = 1
            THEN checkRegexNotMatch(<<
                    <<CASE modifyType = Word_every -> "every"
                        [] modifyType = Word_on -> "on"
                        [] modifyType = Word_named -> "named",
                      args[1]>> >>)
            ELSE NoViolation
        modifiedTask ==
            CASE modifyType = Word_say ->
                    <<[k |-> "taskMessage", v |-> Str(join(args, Space))]>>
              [] modifyType = Word_every ->
                    <<[k |-> "totalWaitInterval", v |-> Num(parseSeconds(args[1]))]>>
              [] modifyType = Word_on ->
                    <<[k |-> "channel", v |-> Str(toLowerCase(args[1]))]>>
              [] modifyType = Word_named ->
                    <<[k |-> "named", v |-> Str(args[1])]>>
    IN  IF request = <<>> THEN Outcome(modify, f)
        ELSE IF DeleteRequested(rest)
        THEN updateTaskList(f, taskName, "delete", <<>>)
        ELSE IF HelpRequested(rest)
        THEN Outcome(modify, f)
        ELSE IF regexNotMatch # NoViolation THEN Outcome(regexNotMatch, f)
        ELSE updateTaskList(f, taskName, "modify", modifiedTask)

\* A clear that runs the store validator first, as the other operations do.
ClearTaskList_Validated(f) ==
    IF ~CanParse(f) THEN Outcome(JSFalse, f)
    ELSE IF ~MatchTaskList(f.doc) THEN Outcome(InvalidTaskList, f)
    ELSE Outcome(WipedClean, File("ok", EmptyDoc))

\* The `clear task list` branch of exec: the empty task list is written
\* without reading the file; the exception of writeFileSync is not caught.
ClearTaskList(f) ==
    IF CanWrite(f) THEN Outcome(WipedClean, File("ok", EmptyDoc))
    ELSE Outcome(Thrown("EACCES"), f)

\* A test of the three keywords that does not ask for a message.
UsageRequested_KeywordsOnly(message, meta) ==
    \/ At(meta, 1) # Word_every
    \/ At(meta, Len(meta) - 3) # Word_on
    \/ At(meta, Len(meta) - 1) # Word_named

\* request.length === 0 || meta[0] !== "every" || meta[meta.length - 4] !== "on"
\* || meta[meta.length - 2] !== "named", request being the message that is left
\* when the last six tokens are taken as meta.
UsageRequested(message, meta) ==
    \/ message = <<>>
    \/ At(meta, 1) # Word_every
    \/ At(meta, Len(meta) - 3) # Word_on
    \/ At(meta, Len(meta) - 1) # Word_named

\* exec(context, request) on the file f.
exec(f, request) ==
    LET n        == Len(request)
        meta     == IF n > 6 THEN SubSeq(request, n - 5, n) ELSE request
        message  == IF n > 6 THEN SubSeq(request, 1, n - 6) ELSE <<>>
        every    == meta[2]
        on       == meta[4]
        taskName == meta[6]
        regexNotMatch ==
            checkRegexNotMatch(<< <<"every", every>>, <<"on", on>>, <<"named", taskName>> >>)
        intervalInSeconds == parseSeconds(every)
        newTask == << [k |-> "totalWaitInterval", v |-> Num(intervalInSeconds)],
                      [k |-> "channel", v |-> Str(toLowerCase(on))],
                      [k |-> "taskMessage", v |-> Str(join(message, Space))] >>
    IN  IF join(request, Space) = join(<<Word_clear, Word_task, Word_list>>, Space)
        THEN ClearTaskList(f)
        ELSE IF At(request, 1) = Word_modify THEN modifyTask(f, Tail(request))
        ELSE IF UsageRequested(message, meta)
        THEN Outcome(usage, f)
        ELSE IF regexNotMatch # NoViolation THEN Outcome(regexNotMatch, f)
        ELSE IF intervalInSeconds = 0 THEN Outcome(InvalidInterval, f)
        ELSE updateTaskList(f, StringName(taskName), "create", newTask)

\* ------------------------------------------------------------ the requests

Name_abc == <<"a", "b", "c">>

Name_k9 == <<"k", "-", "9">>

Name_ab == <<"a", "b">>

Word_hi == <<"h", "i">>

Interval_10 == <<"1", "0">>

Interval_1_5 == <<"1", ":", "5">>

Interval_0 == <<"0">>

Interval_neg == <<"-", "5">>

Channel_Chan1 == <<"C", "h", "a", "n", "1">>

Channel_NEWS == <<"N", "E", "W", "S">>

Channel_bad == <<"c", "!">>

\* The sequences of 1..n copies of the word w.
Repeat(w, n) == {[i \in 1..k |-> w] : k \in 1..n}

\* Task names given after `named`, and as the target of a modify.
CreateNames == {Name_abc, Name_k9, Name_ab, constructor, proto}

TargetNames == {Name_abc, Name_k9, constructor, proto}

NewNames == {Name_abc, Name_k9, Name_ab, proto}

ClearRequests == {<<Word_clear, Word_task, Word_list>>}

CreateRequests ==
    {message \o <<Word_every, every, Word_on, on, Word_named, taskName>> :
        message \in Repeat(Word_hi, MaxMsgLen),
        every \in {Interval_10, Interval_0},
        on \in {Channel_Chan1, Channel_bad},
        taskName \in CreateNames}

\* The values after the keyword of a modify: the value, then further tokens.
ModifyArgs(values) ==
    {<<value>> \o more : value \in values,
                         more \in {<<>>} \cup Repeat(Word_hi, MaxModifyArgs - 1)}

ModifyRequests ==
    {<<Word_modify, taskName>> \o tail :
        taskName \in TargetNames,
        tail \in {<<Word_remove>>, <<Word_delete>>}
                 \cup {<<Word_say>> \o args : args \in Repeat(Word_hi, MaxModifyArgs)}
                 \cup {<<Word_every>> \o args :
                          args \in ModifyArgs({Interval_1_5, Interval_0, Interval_neg})}
                 \cup {<<Word_on>> \o args :
                          args \in ModifyArgs({Channel_NEWS, Channel_bad})}
                 \cup {<<Word_named>> \o args : args \in ModifyArgs(NewNames)}}

\* Requests that are no clear, no well-formed create and no well-formed modify.
OtherRequests ==
    { <<>>,
      <<Word_hi>>,
      <<Word_every, Interval_10, Word_on, Channel_Chan1, Word_named, Name_abc>>,
      <<Word_hi, Word_every, Interval_10, Word_named, Channel_Chan1, Word_on, Name_abc>>,
      <<Word_modify>>,
      <<Word_modify, Name_abc>>,
      <<Word_modify, Name_abc, Word_say>>,
      <<Word_modify, Name_abc, Word_hi, Word_hi>>,
      <<Word_modify, Name_abc, Word_remove, Word_hi>> }

\* -------------------------------------------------------------- the system

VARIABLES
    file,   \* the file at DB_PATH
    cmd,    \* the request of the last call of exec
    reply,  \* what that call returned (NoReply after a change from outside)
    prev,   \* the file as that call found it
    arg,    \* the interval string handed to parseSeconds on its own
    result, \* what parseSeconds returned for arg
    round,  \* a create, the modifies and the delete of one name that follow it
    procs,  \* two processes that run updateTaskList on the same file
    writes  \* the processes in the order of their writeFileSync

vars == <<file, cmd, reply, prev, arg, result, round, procs, writes>>

\* parseSeconds has not been called on its own.
NotParsed == [called |-> FALSE, n |-> 0]

\* No name is followed through create, modify and delete.
NoRound == [phase |-> "none", name |-> <<>>, base |-> File("ok", EmptyDoc)]

Procs == {1, 2}

\* A process that has not called updateTaskList.
IdleProc ==
    [pc |-> "idle", request |-> <<>>, at |-> 0, overlap |-> FALSE,
     snap |-> File("ok", EmptyDoc), out |-> Outcome(NoReply, File("ok", EmptyDoc))]

\* DBInit has written the empty task list.
Init ==
    /\ file = File("ok", EmptyDoc)
    /\ cmd = <<>>
    /\ reply = NoReply
    /\ prev = File("ok", EmptyDoc)
    /\ arg = <<>>
    /\ result = NotParsed
    /\ round = NoRound
    /\ procs = [p \in Procs |-> IdleProc]
    /\ writes = <<>>

\* One call of say.exec(context, request), made when the reply to the call
\* before it has been taken.
Exchange(request) ==
    LET out == exec(file, request)
    IN  /\ reply = NoReply
        /\ file' = out.file
        /\ reply' = out.reply
        /\ cmd' = request
        /\ prev' = file

\* A call made while no name is followed through a round (in Spec and
\* SpecEnv none ever is).
Call(request) ==
    /\ round.phase = "none"
    /\ Exchange(request)
    /\ UNCHANGED <<arg, result, round, procs, writes>>

\* The caller takes the reply (or the exception) of the call.
Relay ==
    /\ reply # NoReply
    /\ round.phase # "closed"
    /\ reply' = NoReply
    /\ cmd' = <<>>
    /\ prev' = file
    /\ UNCHANGED <<file, arg, result, round, procs, writes>>

Clear == \E request \in ClearRequests : Call(request)

Create == \E request \in CreateRequests : Call(request)

Modify == \E request \in ModifyRequests : Call(request)

Other == \E request \in OtherRequests : Call(request)

\* A task with one field missing, as an editor of the file may leave it.
TwoFieldTask ==
    ObjectValue(<< [k |-> "totalWaitInterval", v |-> Num(10)],
                   [k |-> "channel", v |-> Str(toLowerCase(Channel_Chan1))] >>)

ValidTask ==
    ObjectValue(<< [k |-> "totalWaitInterval", v |-> Num(10)],
                   [k |-> "channel", v |-> Str(toLowerCase(Channel_Chan1))],
                   [k |-> "taskMessage", v |-> Str(Word_hi)] >>)

\* What the file can be turned into from outside the program.
OutsideFiles(f) ==
    { File("missing", EmptyDoc),
      File("noaccess", f.doc),
      File("ok", f.doc),
      File("ok", Garbage),
      File("ok", NotIterable),
      File("ok", ArrayDoc(<<>>)),
      File("ok", ArrayDoc(<<[key \in {Name_abc} |-> TwoFieldTask]>>)),
      File("ok", ArrayDoc(<<[key \in {Name_abc, Name_k9} |->
                              IF key = Name_abc THEN ValidTask ELSE TwoFieldTask]>>)),
      File("ok", ArrayDoc(<<[key \in {Name_k9} |-> ValidTask]>>)) }

\* The file is edited, removed or has its permissions changed from outside.
Outside ==
    /\ reply = NoReply
    /\ \E f \in OutsideFiles(file) : f # file /\ file' = f /\ prev' = f
    /\ cmd' = <<>>
    /\ reply' = NoReply
    /\ UNCHANGED <<arg, result, round, procs, writes>>

\* The commands alone, from the empty task list.
Next == Clear \/ Create \/ Modify \/ Other \/ Relay

Spec == Init /\ [][Next]_vars

\* The commands, and the file changed from outside between them.
NextEnv == Clear \/ Create \/ Modify \/ Other \/ Relay \/ Outside

SpecEnv == Init /\ [][NextEnv]_vars

\* ----------------------------------------------------- notions of the claims

\* exec has returned and its reply has not been taken yet: cmd, reply and
\* prev describe that call.
Called == reply # NoReply

\* The document of f can be read and parsed.
Parseable(f) == f.st = "ok" /\ f.doc.kind # "garbage"

\* f holds a structurally valid store.
ValidStore(f) == Parseable(f) /\ MatchTaskList(f.doc)

\* The mapping of a store that is an array with a first element.
Tasks(f) == f.doc.elems[1]

Keys(f) == DOMAIN Tasks(f)

IsClear(c) == c = <<Word_clear, Word_task, Word_list>>

\* c is `<message> every <interval> on <channel> named <name>` with an interval
\* and a channel the field validator and the interval parser accept: a create
\* that is handed to the task store if its name passes the task-name rule.
IsCreate(c) ==
    /\ Len(c) >= 7
    /\ c[1] # Word_modify
    /\ c[Len(c) - 5] = Word_every
    /\ c[Len(c) - 3] = Word_on
    /\ c[Len(c) - 1] = Word_named
    /\ MatchEvery(c[Len(c) - 4])
    /\ parseSeconds(c[Len(c) - 4]) > 0
    /\ MatchOn(c[Len(c) - 2])

CreateName(c) == c[Len(c)]

CreateChannel(c) == c[Len(c) - 2]

CreateMessage(c) == SubSeq(c, 1, Len(c) - 6)

\* c is `modify <name> remove` or `modify <name> delete`.
IsDelete(c) ==
    Len(c) = 3 /\ c[1] = Word_modify /\ c[3] \in {Word_remove, Word_delete}

\* c is `modify <name> say|every|on|named <value>` with one value, which the
\* field validator accepts.
IsModify(c) ==
    /\ Len(c) = 4
    /\ c[1] = Word_modify
    /\ \/ c[3] = Word_say
       \/ c[3] = Word_every /\ MatchEvery(c[4])
       \/ c[3] = Word_on /\ MatchOn(c[4])
       \/ c[3] = Word_named /\ MatchNamed(c[4])

IsRename(c) == IsModify(c) /\ c[3] = Word_named

Target(c) == c[2]

\* The value of field k of an object value (k is one of its properties).
Field(v, k) == v.fields[CHOOSE i \in DOMAIN v.fields : v.fields[i].k = k].v

\* v is a record of the three fields of a task, in their order.
IsTaskRecord(v) ==
    /\ v.t = "object"
    /\ [i \in DOMAIN v.fields |-> v.fields[i].k]
          = <<"totalWaitInterval", "channel", "taskMessage">>

\* The document of f is an array whose first element is a mapping.
HasTasks(f) == Parseable(f) /\ f.doc.kind = "array" /\ Len(f.doc.elems) >= 1

\* --------------------------------------------------------------- the claims

\* C1: on a structurally valid store, a create command whose interval and
\* channel are accepted and whose task name is already a key of the store
\* leaves the file exactly as it was and replies "already exists".
C1_CreateExistingLeavesStore ==
    (/\ Called
     /\ IsCreate(cmd)
     /\ ValidStore(prev)
     /\ CreateName(cmd) \in Keys(prev))
    => /\ file = prev
       /\ reply = AlreadyExists(CreateName(cmd))

\* C1 happens: a create on a name that a store of two tasks holds.
C1_Witness ==
    /\ Called
    /\ IsCreate(cmd)
    /\ ValidStore(prev)
    /\ CreateName(cmd) \in Keys(prev)
    /\ Cardinality(Keys(prev)) = 2
    /\ reply = AlreadyExists(CreateName(cmd))

\* C2: on a structurally valid store, a well-formed create command whose name
\* passes the task-name rule and is not a key of the store inserts exactly
\* the entry name -> {totalWaitInterval, channel, taskMessage}, leaves the
\* other entries as they were and replies with the confirmation; it does not
\* reply "already exists".
C2_CreateAbsentInserts ==
    (/\ Called
     /\ IsCreate(cmd)
     /\ MatchNamed(CreateName(cmd))
     /\ ValidStore(prev)
     /\ CreateName(cmd) \notin Keys(prev))
    => /\ reply = Activated(CreateName(cmd), toLowerCase(CreateChannel(cmd)))
       /\ ValidStore(file)
       /\ Keys(file) = Keys(prev) \cup {CreateName(cmd)}
       /\ \A key \in Keys(prev) : Tasks(file)[key] = Tasks(prev)[key]
       /\ Tasks(file)[CreateName(cmd)] =
             ObjectValue(<< [k |-> "totalWaitInterval",
                             v |-> Num(parseSeconds(cmd[Len(cmd) - 4]))],
                            [k |-> "channel",
                             v |-> Str(toLowerCase(CreateChannel(cmd)))],
                            [k |-> "taskMessage",
                             v |-> Str(join(CreateMessage(cmd), Space))] >>)

\* C3: on a structurally valid store that holds N, `modify N remove` and
\* `modify N delete` remove exactly the key N: N is gone, every other key is
\* still there with the record it had.
C3_DeleteRemovesOnlyKey ==
    (/\ Called
     /\ IsDelete(cmd)
     /\ ValidStore(prev)
     /\ Target(cmd) \in Keys(prev))
    => /\ ValidStore(file)
       /\ Keys(file) = Keys(prev) \ {Target(cmd)}
       /\ \A key \in Keys(file) : Tasks(file)[key] = Tasks(prev)[key]

\* C3 happens: a task is deleted from a store of two and the other one stays.
C3_Witness ==
    /\ Called
    /\ IsDelete(cmd)
    /\ ValidStore(prev)
    /\ Target(cmd) \in Keys(prev)
    /\ Cardinality(Keys(prev)) = 2
    /\ Cardinality(Keys(file)) = 1
    /\ reply = Removed(Target(cmd))

\* C4: on a structurally valid store, a modify command and a delete command
\* on a name that passes the task-name rule and is not a key of the store
\* reply "does not exist" and leave the file as it was.
C4_AbsentNameDoesNotExist ==
    (/\ Called
     /\ IsDelete(cmd) \/ IsModify(cmd)
     /\ MatchNamed(Target(cmd))
     /\ ValidStore(prev)
     /\ Target(cmd) \notin Keys(prev))
    => /\ reply = DoesNotExist(Target(cmd))
       /\ file = prev

\* C5: on a structurally valid store that holds OLD, `modify OLD named NEW`
\* with a valid name NEW leaves the record of OLD under NEW, its three values
\* unchanged, and no entry under the old name.
C5_RenameKeepsRecord ==
    (/\ Called
     /\ IsRename(cmd)
     /\ ValidStore(prev)
     /\ Target(cmd) \in Keys(prev))
    => /\ ValidStore(file)
       /\ cmd[4] \in Keys(file)
       /\ Tasks(file)[cmd[4]] = Tasks(prev)[Target(cmd)]
       /\ cmd[4] # Target(cmd) => Target(cmd) \notin Keys(file)

\* C6: `clear task list` leaves a one-element array holding an empty mapping,
\* whatever document the file held (tasks, a structurally invalid document,
\* text that does not parse) and also when there was no file; the file is
\* one that can be written.
C6_ClearResetsStore ==
    (/\ Called
     /\ IsClear(cmd)
     /\ prev.st # "noaccess")
    => /\ file = File("ok", ArrayDoc(<< [key \in {} |-> key] >>))
       /\ reply = WipedClean

\* C6 happens: a clear on a document of two entries that fails the structural
\* match.
C6_Witness ==
    /\ Called
    /\ IsClear(cmd)
    /\ Parseable(prev)
    /\ prev.doc.kind = "array"
    /\ Len(prev.doc.elems) = 1
    /\ Cardinality(Keys(prev)) = 2
    /\ ~MatchTaskList(prev.doc)
    /\ file.doc = ArrayDoc(<< [key \in {} |-> key] >>)

\* C7: while the document of the file parses but fails the structural match,
\* every mutating operation (create, modify, delete and clear) replies
\* "Invalid Task List." and leaves the file as it was.
C7_InvalidStoreRejectsAll ==
    (/\ Called
     /\ Parseable(prev)
     /\ ~MatchTaskList(prev.doc)
     /\ \/ IsClear(cmd)
        \/ IsCreate(cmd) /\ MatchNamed(CreateName(cmd))
        \/ IsModify(cmd)
        \/ IsDelete(cmd))
    => /\ reply = InvalidTaskList
       /\ file = prev

\* C8: whatever the command and whatever the state of the file (also absent,
\* without permissions, or not JSON), exec returns a string: it returns no
\* other value and raises no exception.
C8_ReplyIsString == Called => reply.type = "string"

\* C9: from the empty store, after any sequence of commands, every stored
\* task (a record of the three fields) has a totalWaitInterval that is a
\* positive integer.
C9_IntervalPositive ==
    HasTasks(file)
    => \A key \in Keys(file) :
          IsTaskRecord(Tasks(file)[key])
          => /\ Field(Tasks(file)[key], "totalWaitInterval").t = "number"
             /\ Field(Tasks(file)[key], "totalWaitInterval").n > 0

\* C10: from the empty store, after any sequence of commands, every stored
\* task has a key that satisfies the task-name rule, a channel that satisfies
\* the channel rule and a totalWaitInterval that is written as a string of
\* digits, so that the document passes the store validator.
C10_StoreStaysValid ==
    HasTasks(file)
    => \A key \in Keys(file) :
          IsTaskRecord(Tasks(file)[key])
          => /\ MatchNamed(key)
             /\ Field(Tasks(file)[key], "channel").t = "string"
             /\ MatchOn(Field(Tasks(file)[key], "channel").s)
             /\ Field(Tasks(file)[key], "totalWaitInterval").t = "number"
             /\ Field(Tasks(file)[key], "totalWaitInterval").n >= 0

\* C11: from the empty store, after any sequence of create, modify, delete
\* and clear commands, every stored record has exactly the three fields
\* totalWaitInterval, channel and taskMessage, in that order; no record has a
\* field `named`.
C11_RecordsKeepThreeFields ==
    HasTasks(file)
    => \A key \in Keys(file) :
          /\ IsTaskRecord(Tasks(file)[key])
          /\ "named" \notin FieldNames(Tasks(file)[key].fields)

\* C12: from the empty store, after any sequence of commands, the channel of
\* every stored record has no upper-case letter.
C12_ChannelLowerCase ==
    HasTasks(file)
    => \A key \in Keys(file) :
          \A i \in DOMAIN Tasks(file)[key].fields :
              Tasks(file)[key].fields[i].k = "channel"
              => /\ Tasks(file)[key].fields[i].v.t = "string"
                 /\ \A j \in DOMAIN Tasks(file)[key].fields[i].v.s :
                       Tasks(file)[key].fields[i].v.s[j] \notin UpperChars

\* C12 happens: a modify has stored the channel given in upper case, next to
\* a task whose channel a create gave in mixed case.
C12_Witness ==
    /\ Called
    /\ IsModify(cmd)
    /\ cmd[3] = Word_on
    /\ cmd[4] = Channel_NEWS
    /\ ValidStore(prev)
    /\ Target(cmd) \in Keys(prev)
    /\ Cardinality(Keys(file)) = 2
    /\ Field(Tasks(file)[Target(cmd)], "channel") = Str(<<"n", "e", "w", "s">>)
    /\ \E key \in Keys(file) :
          Field(Tasks(file)[key], "channel") = Str(<<"c", "h", "a", "n", "1">>)

\* ------------------------------------------- the interval parser on its own

\* Nonnegative integers as they are written in an interval, with the number
\* each one denotes; some carry a leading zero.
Components ==
    { [text |-> <<"0">>, n |-> 0],
      [text |-> <<"0", "0">>, n |-> 0],
      [text |-> <<"2">>, n |-> 2],
      [text |-> <<"5">>, n |-> 5],
      [text |-> <<"0", "5">>, n |-> 5],
      [text |-> <<"3", "0">>, n |-> 30],
      [text |-> <<"3", "8">>, n |-> 38],
      [text |-> <<"6", "0">>, n |-> 60],
      [text |-> <<"1", "0", "0">>, n |-> 100],
      [text |-> <<"2", "3", "9", "9">>, n |-> 2399],
      [text |-> <<"5", "0", "0", "0", "0", "0">>, n |-> 500000] }

\* One to three components, the last one the seconds.
IntervalParts == UNION {[1..k -> Components] : k \in 1..3}

\* The interval string of the components: their texts joined by ":".
Written(parts) == join([i \in DOMAIN parts |-> parts[i].text], <<":">>)

Intervals == {Written(parts) : parts \in IntervalParts}

\* seconds + 60 * minutes + 3600 * hours of the components, read right to left.
TotalOf(parts) ==
    LET k == Len(parts)
    IN  parts[k].n
        + (IF k >= 2 THEN 60 * parts[k - 1].n ELSE 0)
        + (IF k >= 3 THEN 3600 * parts[k - 2].n ELSE 0)

InitParse ==
    /\ file = File("ok", EmptyDoc)
    /\ cmd = <<>>
    /\ reply = NoReply
    /\ prev = File("ok", EmptyDoc)
    /\ arg \in Intervals
    /\ result = NotParsed
    /\ round = NoRound
    /\ procs = [p \in Procs |-> IdleProc]
    /\ writes = <<>>

\* parseSeconds(arg) is called and returns.
Parse ==
    /\ ~result.called
    /\ result' = [called |-> TRUE, n |-> parseSeconds(arg)]
    /\ UNCHANGED <<file, cmd, reply, prev, arg, round, procs, writes>>

NextParse == Parse

SpecParse == InitParse /\ [][NextParse]_vars

\* C13: for every interval string of one to three nonnegative integers joined
\* by ":" whose total, counted from the present instant, is within the range
\* of dates, parseSeconds returns seconds + 60 * minutes + 3600 * hours, the
\* components read right to left and the units left out counting as zero.
\* In particular parseSeconds("2:5:30") = 7530 and parseSeconds("60:00") = 3600.
C13_ParseSecondsTotal ==
    result.called
    => /\ \A parts \in IntervalParts :
             (arg = Written(parts) /\ ~InvalidDate(Epox + TotalOf(parts)))
             => result.n = TotalOf(parts)
       /\ arg = <<"2", ":", "5", ":", "3", "0">> => result.n = 7530
       /\ arg = <<"6", "0", ":", "0", "0">> => result.n = 3600

\* C13 happens: parseSeconds("2:5:30") has returned 7530.
C13_Witness ==
    /\ result.called
    /\ arg = <<"2", ":", "5", ":", "3", "0">>
    /\ result.n = 7530

\* -------------------------------------- one name created, modified, deleted

\* A create of a name that a valid store does not hold succeeds, and the name
\* is followed from the store as the create found it.
RoundCreate ==
    /\ round.phase = "none"
    /\ reply = NoReply
    /\ ValidStore(file)
    /\ \E request \in CreateRequests :
          /\ CreateName(request) \notin Keys(file)
          /\ exec(file, request).reply
                = Activated(CreateName(request), toLowerCase(CreateChannel(request)))
          /\ Exchange(request)
          /\ round' = [phase |-> "open", name |-> CreateName(request), base |-> file]
    /\ UNCHANGED <<arg, result, procs, writes>>

\* A modify of the name followed that is no rename and no delete.
RoundModify ==
    /\ round.phase = "open"
    /\ \E request \in ModifyRequests :
          /\ request[2] = round.name
          /\ request[3] \in {Word_say, Word_every, Word_on}
          /\ Exchange(request)
    /\ UNCHANGED <<arg, result, round, procs, writes>>

\* The delete of the name followed.
RoundDelete ==
    /\ round.phase = "open"
    /\ \E request \in ModifyRequests :
          /\ request[2] = round.name
          /\ IsDelete(request)
          /\ Exchange(request)
    /\ round' = [round EXCEPT !.phase = "closed"]
    /\ UNCHANGED <<arg, result, procs, writes>>

\* The caller takes the reply of the delete; no name is followed any more.
RoundEnd ==
    /\ round.phase = "closed"
    /\ reply # NoReply
    /\ reply' = NoReply
    /\ cmd' = <<>>
    /\ prev' = file
    /\ round' = NoRound
    /\ UNCHANGED <<file, arg, result, procs, writes>>

\* Creates fill the store while no name is followed; then the create, the
\* modifies and the delete of the name followed, and nothing else.
NextRound ==
    \/ Create
    \/ Relay
    \/ RoundCreate
    \/ RoundModify
    \/ RoundDelete
    \/ RoundEnd

SpecRound == Init /\ [][NextRound]_vars

\* C14: on a valid store that does not hold N, after a successful create of
\* N, any modifies of N that are no renames and a delete of N, the store
\* holds exactly what it held before the create (from the empty store: it is
\* empty again).
C14_RoundRestoresStore ==
    round.phase = "closed" => file = round.base

\* C15: on a valid store that holds N, a modify of N that is no delete (a
\* merge by say, every or on, or a rename to any valid name, the name N itself
\* and the name of another task included) loses no record: the store holds as
\* many tasks as before and every other task is still under its key with the
\* record it had.
C15_ModifyLosesNoRecord ==
    (/\ Called
     /\ IsModify(cmd)
     /\ ValidStore(prev)
     /\ Target(cmd) \in Keys(prev))
    => /\ HasTasks(file)
       /\ Cardinality(Keys(file)) = Cardinality(Keys(prev))
       /\ \A key \in Keys(prev) \ {Target(cmd)} :
             key \in Keys(file) /\ Tasks(file)[key] = Tasks(prev)[key]

\* C16: on a valid store that holds N, a modify of N by say, every or on with
\* one accepted value that replies success changes only the field it names:
\* the record of N keeps its three fields and the values of the two others,
\* the store keeps its keys, and the record of every other task is unchanged.
C16_MergeChangesOneField ==
    (/\ Called
     /\ IsModify(cmd)
     /\ ~IsRename(cmd)
     /\ ValidStore(prev)
     /\ Target(cmd) \in Keys(prev)
     /\ reply = Modified(Target(cmd)))
    => LET patched == CASE cmd[3] = Word_say -> "taskMessage"
                        [] cmd[3] = Word_every -> "totalWaitInterval"
                        [] cmd[3] = Word_on -> "channel"
       IN  /\ HasTasks(file)
           /\ Keys(file) = Keys(prev)
           /\ \A key \in Keys(prev) \ {Target(cmd)} :
                 Tasks(file)[key] = Tasks(prev)[key]
           /\ IsTaskRecord(Tasks(file)[Target(cmd)])
           /\ \A k \in {"totalWaitInterval", "channel", "taskMessage"} \ {patched} :
                 Field(Tasks(file)[Target(cmd)], k) = Field(Tasks(prev)[Target(cmd)], k)

\* C16 happens: in a store of two tasks the channel of one is replaced and
\* differs from the one it had.
C16_Witness ==
    /\ Called
    /\ IsModify(cmd)
    /\ cmd[3] = Word_on
    /\ ValidStore(prev)
    /\ Target(cmd) \in Keys(prev)
    /\ Cardinality(Keys(prev)) = 2
    /\ reply = Modified(Target(cmd))
    /\ Field(Tasks(file)[Target(cmd)], "channel")
          # Field(Tasks(prev)[Target(cmd)], "channel")
    /\ Field(Tasks(file)[Target(cmd)], "taskMessage")
          = Field(Tasks(prev)[Target(cmd)], "taskMessage")

\* C17: `modify <name> <op> ...` is handed to the task store as a delete of
\* <name> exactly when <op> is `remove` or `delete` and no token follows it.
\* Every other modify that has no value after its keyword or whose keyword is
\* not say, every, on or named (`remove` or `delete` followed by more tokens
\* and `modify` alone included) is answered with the modify help and leaves
\* the file as it was.
C17_DeleteFormAndModifyHelp ==
    (Called /\ At(cmd, 1) = Word_modify)
    => LET isDelete == Len(cmd) = 3 /\ cmd[3] \in {Word_remove, Word_delete}
           noValue  == Len(cmd) <= 3
           keyword  == At(cmd, 3) \in {Word_say, Word_every, Word_on, Word_named}
       IN  /\ isDelete
              => [reply |-> reply, file |-> file]
                    = updateTaskList(prev, ArrayName(<<cmd[2]>>), "delete", <<>>)
           /\ ~isDelete => reply.text # Removed(<<>>).text
           /\ (~isDelete /\ (noValue \/ ~keyword))
              => /\ reply = StringReply("say modify say|on|every|named <message>|<h>:<m>:<s>|<channel>|<task-name>", <<>>, <<>>)
                 /\ file = prev

\* C17 happens: `modify abc remove hi` on a store that holds abc is answered
\* with the modify help and abc stays.
C17_Witness ==
    /\ Called
    /\ cmd = <<Word_modify, Name_abc, Word_remove, Word_hi>>
    /\ ValidStore(prev)
    /\ Name_abc \in Keys(prev)
    /\ reply = modify
    /\ file = prev

\* C18: a command that is neither `clear task list` nor a modify and that has
\* fewer than seven tokens, or whose last six tokens are not
\* `every <interval> on <channel> named <name>`, is answered with the usage
\* help; no exception is raised and the file stays as it was.
C18_MalformedCreateUsage ==
    (/\ Called
     /\ ~IsClear(cmd)
     /\ At(cmd, 1) # Word_modify
     /\ \/ Len(cmd) < 7
        \/ cmd[Len(cmd) - 5] # Word_every
        \/ cmd[Len(cmd) - 3] # Word_on
        \/ cmd[Len(cmd) - 1] # Word_named)
    => /\ reply = StringReply("say <message> every <h>:<m>:<s> on <channel> named <task-name>", <<>>, <<>>)
       /\ file = prev

\* C18 happens: six tokens of the right shape with no message before them, on
\* a store that holds a task, are answered with the usage help.
C18_Witness ==
    /\ Called
    /\ cmd = <<Word_every, Interval_10, Word_on, Channel_Chan1, Word_named, Name_abc>>
    /\ ValidStore(prev)
    /\ Keys(prev) # {}
    /\ reply = usage
    /\ file = prev

\* C19: a modify command on a document that parses but fails the structural
\* match (an entry with a wrong number of fields, a record that is absent, an
\* empty array, a document that is no array) is answered "Invalid Task List."
\* and leaves the file as it was: the diagnostic of the store validator for
\* the named record does not change the outcome.
C19_DiagnosticKeepsOutcome ==
    (/\ Called
     /\ IsModify(cmd)
     /\ Parseable(prev)
     /\ ~MatchTaskList(prev.doc))
    => /\ reply = InvalidTaskList
       /\ file = prev

\* ------------------------------------ two callers of updateTaskList at once

\* The stores the two processes start from: the empty one, and one task.
RaceStores ==
    { File("ok", EmptyDoc),
      File("ok", ArrayDoc(<<[key \in {Name_abc} |-> ValidTask]>>)) }

RaceRequests ==
    { <<Word_hi, Word_every, Interval_10, Word_on, Channel_Chan1, Word_named, Name_abc>>,
      <<Word_hi, Word_every, Interval_10, Word_on, Channel_Chan1, Word_named, Name_k9>>,
      <<Word_modify, Name_abc, Word_on, Channel_NEWS>>,
      <<Word_modify, Name_abc, Word_named, Name_k9>>,
      <<Word_modify, Name_abc, Word_remove>>,
      <<Word_modify, Name_k9, Word_say, Word_hi>> }

InitRace ==
    /\ file \in RaceStores
    /\ prev = file
    /\ cmd = <<>>
    /\ reply = NoReply
    /\ arg = <<>>
    /\ result = NotParsed
    /\ round = NoRound
    /\ procs = [p \in Procs |-> IdleProc]
    /\ writes = <<>>

\* updateTaskList goes on to writeFileSync: it has set returnedValue and has
\* not returned from the switch.
WritesFile(out) ==
    out.reply.text \in {Activated(<<>>, <<>>).text, Modified(<<>>).text, Removed(<<>>).text}

\* Process p runs a command up to the end of the switch of updateTaskList:
\* it reads the file, validates the document and changes its own copy. No
\* lock is taken: the other process may be between its read and its write.
ProcRead(p) ==
    /\ procs[p].pc = "idle"
    /\ \E request \in RaceRequests :
          LET out == exec(file, request)
          IN  procs' = [procs EXCEPT ![p] =
                  [pc      |-> IF WritesFile(out) THEN "read" ELSE "done",
                   request |-> request,
                   at      |-> Cardinality({q \in Procs : procs[q].pc # "idle"}),
                   overlap |-> \E q \in Procs : procs[q].pc = "read",
                   snap    |-> file,
                   out     |-> out]]
    /\ UNCHANGED <<file, cmd, reply, prev, arg, result, round, writes>>

\* A write that starts from the document as the file holds it now.
ProcWriteDoc_Reread(p) == exec(file, procs[p].request).file

\* JSON.stringify([tasks], null, 4) of the copy that process p has changed.
ProcWriteDoc(p) == procs[p].out.file

\* Process p writes its copy and returns its reply.
ProcWrite(p) ==
    /\ procs[p].pc = "read"
    /\ file' = ProcWriteDoc(p)
    /\ procs' = [procs EXCEPT ![p].pc = "done"]
    /\ writes' = Append(writes, p)
    /\ UNCHANGED <<cmd, reply, prev, arg, result, round>>

NextRace ==
    \/ \E p \in Procs : ProcRead(p)
    \/ \E p \in Procs : ProcWrite(p)

SpecRace == InitRace /\ [][NextRace]_vars

\* Both processes have read the document before either has written it, and
\* both have written.
Raced == Len(writes) = 2 /\ \E p \in Procs : procs[p].overlap

\* C20: when two commands that both go on to write have both read the
\* document before either has written it, both reply with success and the
\* file holds the document that
\* the later writer made from what it read, so the change of the earlier
\* writer is not in it; when the second command reads after the first has
\* returned, the file holds the second change applied to the first and each
\* reply is the one of the command run alone in its turn.
C20_UnlockedUpdate ==
    (\A p \in Procs : procs[p].pc = "done")
    => LET first  == CHOOSE p \in Procs : procs[p].at = 0
           second == CHOOSE p \in Procs : procs[p].at = 1
           one    == exec(procs[first].snap, procs[first].request)
           two    == exec(one.file, procs[second].request)
       IN  /\ Raced
              => /\ \A p \in Procs : WritesFile(procs[p].out)
                 /\ procs[first].snap = procs[second].snap
                 /\ file = exec(procs[first].snap, procs[writes[2]].request).file
           /\ (~\E p \in Procs : procs[p].overlap)
              => /\ file = two.file
                 /\ procs[first].out.reply = one.reply
                 /\ procs[second].out.reply = two.reply

\* C20 happens: two creates have both read the empty store; both reply that
\* the task is activated and the file holds only the task of the later writer.
C20_Witness ==
    /\ \A p \in Procs : procs[p].pc = "done"
    /\ Raced
    /\ procs[writes[1]].out.reply = Activated(Name_abc, toLowerCase(Channel_Chan1))
    /\ procs[writes[2]].out.reply = Activated(Name_k9, toLowerCase(Channel_Chan1))
    /\ ValidStore(file)
    /\ Keys(file) = {Name_k9}

====
